---- MODULE Spec2Model ----
(***************************************************************************)
(* Model of the GlobWetlandAfrica installer (src/installer.py).            *)
(*                                                                         *)
(* Three specifications share this module:                                 *)
(*   Spec      Installer.runInstaller, the linear wizard: one action per   *)
(*             dialog and per blocking statement of each branch.           *)
(*   LiveSpec  Spec with weak fairness of the next statement.              *)
(*   UtilSpec  the Utilities methods as operations on a small file system, *)
(*             each applied to inputs drawn from bounded sets.             *)
(* The Utilities methods are operators from a file system and arguments to *)
(* a result record [fs, ev, exc, ret]: the file system afterwards, the     *)
(* events the call produced (log lines, message boxes, launched processes, *)
(* settings written, finished signals), the exception that left the call   *)
(* ("none" when it returned) and the returned value.                       *)
(***************************************************************************)
EXTENDS Integers, Sequences, FiniteSets, TLC

VARIABLES
    pc,                 \* position of runInstaller
    res,                \* outcome returned by each step dialog ("none": not shown)
    shown,              \* step dialogs presented so far, in order
    progress,           \* per step: "none", "started" or "done" (its NEXT branch)
    stepLog,            \* events since the last step dialog was presented
    settings,           \* QSettings store: set of <<name, value>>
    install_dirs,       \* local install_dirs of runInstaller
    localsBound,        \* TRUE once lines 57-69 have bound the locals
    site_packages_dir,  \* local site_packages_dir (<<>>: unbound)
    pending,            \* zip files still to extract in the current glob loop
    status,             \* "running", "returned" or "raised"
    exc,                \* exception that ended runInstaller ("none")
    fs,                 \* UtilSpec: the file system
    call,               \* UtilSpec: the last Utilities call and its result
    ncalls              \* UtilSpec: number of calls made

vars == <<pc, res, shown, progress, stepLog, settings, install_dirs, localsBound,
          site_packages_dir, pending, status, exc, fs, call, ncalls>>

seqVars == <<pc, res, shown, progress, stepLog, settings, install_dirs, localsBound,
             site_packages_dir, pending, status, exc>>

utilVars == <<fs, call, ncalls>>

(***************************************************************************)
(* Bounds of the model.                                                    *)
(***************************************************************************)
\* most zip files a glob of the extras directory returns
MaxZips == 1

\* most Utilities calls made in a row on one file system (UtilSpec)
MaxCalls == 1

(***************************************************************************)
(* Paths and the file system.                                              *)
(* A path is the sequence of its components; a file system is             *)
(*   files  a function from the paths of regular files to their content,   *)
(*   dirs   the set of existing directories,                               *)
(*   ro     the directories in which no entry can be created or removed,   *)
(*   nodel  the directories in which entries can be created, not removed.  *)
(***************************************************************************)
join(p, name) == Append(p, name)

dirname(p) == IF Len(p) = 0 THEN <<>> ELSE SubSeq(p, 1, Len(p) - 1)

basename(p) == IF Len(p) = 0 THEN "" ELSE p[Len(p)]

Prefixes(p) == {SubSeq(p, 1, k) : k \in 1..Len(p)}

IsPrefix(p, q) == Len(p) <= Len(q) /\ SubSeq(q, 1, Len(p)) = p

isfile(f, p) == p \in DOMAIN f.files

isdir(f, p) == p \in f.dirs

\* builds a file system from files (path -> content), extra directories and flags;
\* every ancestor of a file or directory is a directory
MkFs(F, D, RO, ND) ==
    LET ds == UNION {Prefixes(dirname(p)) : p \in DOMAIN F} \cup UNION {Prefixes(d) : d \in D}
    IN  [files |-> F, dirs |-> ds, ro |-> RO \cap ds, nodel |-> ND \cap ds]

EmptyFiles == [p \in {} |-> ""]

OneFile(p, c) == [q \in {p} |-> c]

\* the empty file system
NoFs == MkFs(EmptyFiles, {}, {}, {})

\* g laid over f: the files of g replace those of f at the same path
Overlay(f, g) == [p \in DOMAIN f \cup DOMAIN g |-> IF p \in DOMAIN g THEN g[p] ELSE f[p]]

\* os.makedirs(p): creates p and its missing ancestors; fails with OSError when a
\* component is a regular file or the first directory to create lies in a
\* read-only directory
makedirs(f, p) ==
    LET missing == {q \in Prefixes(p) : ~isdir(f, q)}
        blocked == \/ \E q \in Prefixes(p) : isfile(f, q)
                   \/ \E q \in missing : dirname(q) \in f.ro
    IN  IF blocked THEN [ok |-> FALSE, fs |-> f]
        ELSE [ok |-> TRUE, fs |-> [f EXCEPT !.dirs = @ \cup missing]]

\* open(p, 'w') and close: creates or truncates the regular file p
open_w(f, p) ==
    IF isdir(f, p) \/ ~isdir(f, dirname(p)) \/ dirname(p) \in f.ro
    THEN [ok |-> FALSE, fs |-> f]
    ELSE [ok |-> TRUE, fs |-> [f EXCEPT !.files = Overlay(@, OneFile(p, ""))]]

\* os.remove(p)
remove(f, p) ==
    IF ~isfile(f, p) \/ dirname(p) \in f.ro \/ dirname(p) \in f.nodel
    THEN [ok |-> FALSE, fs |-> f]
    ELSE [ok |-> TRUE,
          fs |-> [f EXCEPT !.files = [q \in DOMAIN @ \ {p} |-> @[q]]]]

(***************************************************************************)
(* Events and results.                                                     *)
(***************************************************************************)
Ev(kind, what) == <<kind, what>>

Finished == Ev("finished", "")

Result(f, ev, e, r) == [fs |-> f, ev |-> ev, exc |-> e, ret |-> r]

NumFinished(ev) == Cardinality({i \in 1..Len(ev) : ev[i] = Finished})

HasEvent(ev, e) == \E i \in 1..Len(ev) : ev[i] = e

HasKind(ev, kind) == \E i \in 1..Len(ev) : ev[i][1] = kind

\* no command, and the record of no call (UtilSpec before its first call)
NoCommand == [list |-> TRUE, tokens |-> <<>>]

NoCall == [op |-> "none", a1 |-> <<>>, a2 |-> <<>>, cmd |-> NoCommand, flag |-> FALSE,
           opt |-> "", pre |-> NoFs, ev |-> <<>>, exc |-> "none", ret |-> "None"]

(***************************************************************************)
(* Utilities: logging, message boxes, the finished signal.                 *)
(***************************************************************************)
\* _log_traceback(notify, fail) run in an except block: logs the trace, then
\* re-raises the exception being handled (fail) or shows it in a message box (notify)
_log_traceback(notify, fail) ==
    [ev |-> <<Ev("log.exception", "Something went wrong.")>>
            \o (IF ~fail /\ notify THEN <<Ev("popup", "An error occurred")>> ELSE <<>>),
     reraise |-> fail]

\* error_exit(msg): logs, shows the message box, emits finished and returns None
error_exit(f, msg) ==
    Result(f, <<Ev("log.error", msg), Ev("popup", msg), Finished>>, "none", "None")

\* checkWritePermissions(dstPath): creates dstPath when absent, creates the probe
\* file _test in it and removes it again (a failed removal is swallowed)
checkWritePermissions(f, dstPath) ==
    LET testfile == join(dstPath, "_test")
        mk == IF isdir(f, dstPath) THEN [ok |-> TRUE, fs |-> f] ELSE makedirs(f, dstPath)
        op == open_w(mk.fs, testfile)
        rm == remove(op.fs, testfile)
        dbg == <<Ev("log.debug", "Checking write permissions")>>
               \o (IF isdir(f, dstPath) THEN <<>> ELSE <<Ev("log.debug", "Creating directory")>>)
    IN  IF ~mk.ok THEN Result(f, dbg \o <<Ev("log.debug", "IOError")>>, "none", "False")
        ELSE IF ~op.ok
        THEN Result(mk.fs, dbg \o <<Ev("log.debug", "IOError")>>, "none", "False")
        ELSE Result(rm.fs, dbg, "none", "True")

(***************************************************************************)
(* Archives.  The content of a regular file is a string; the contents      *)
(* listed in ZipEntries are zip archives, holding the given members in     *)
(* archive order (<<relative path, content>>).                             *)
(***************************************************************************)
ZipContents == {"zipA", "zipB", "zip0"}

ZipEntries(c) ==
    CASE c = "zipA" -> << <<(<<"a">>), "x">>, <<(<<"sub", "c">>), "x">> >>
      [] c = "zipB" -> << <<(<<"b">>), "y">> >>
      [] OTHER -> <<>>

\* writes one regular file with the given content, creating its directories
write_file(f, p, c) ==
    LET mk == IF isdir(f, dirname(p)) THEN [ok |-> TRUE, fs |-> f]
              ELSE makedirs(f, dirname(p))
    IN  IF ~mk.ok \/ isdir(mk.fs, p) \/ dirname(p) \in mk.fs.ro
        THEN [ok |-> FALSE, fs |-> mk.fs]
        ELSE [ok |-> TRUE, fs |-> [mk.fs EXCEPT !.files = Overlay(@, OneFile(p, c))]]

\* ZipFile.extractall(dstPath): members are written in archive order; the first
\* member that cannot be written raises and leaves the earlier ones extracted
RECURSIVE extractall(_, _, _)
extractall(f, entries, dstPath) ==
    IF entries = <<>> THEN [ok |-> TRUE, fs |-> f]
    ELSE LET w == write_file(f, dstPath \o Head(entries)[1], Head(entries)[2])
         IN  IF w.ok THEN extractall(w.fs, Tail(entries), dstPath) ELSE w

\* mutant of unzipArchive: the destination is probed before the archive is looked for
unzipArchiveProbesFirst(f, archivePath, dstPath) ==
    LET cw == checkWritePermissions(f, dstPath)
        e == error_exit(cw.fs, "Could not find the archive! No files were extracted.")
    IN  Result(e.fs, <<Ev("log.info", "Unzipping")>> \o cw.ev \o e.ev, "none", "None")

\* unzipArchive(archivePath, dstPath)
unzipArchive(f, archivePath, dstPath) ==
    LET info == <<Ev("log.info", "Unzipping")>>
        cw == checkWritePermissions(f, dstPath)
        ex == extractall(cw.fs, ZipEntries(cw.fs.files[archivePath]), dstPath)
    IN  IF ~isfile(f, archivePath)
        THEN LET e == error_exit(f, "Could not find the archive! No files were extracted.")
             IN  Result(e.fs, info \o e.ev, "none", "None")
        ELSE IF cw.ret # "True"
        THEN LET e == error_exit(cw.fs, "You do not have permissions to write to destination directory!")
             IN  Result(e.fs, info \o cw.ev \o e.ev, "none", "None")
        ELSE IF cw.fs.files[archivePath] \notin ZipContents
        THEN Result(cw.fs, info \o cw.ev, "BadZipFile", "None")
        ELSE IF ~ex.ok
        THEN Result(ex.fs, info \o cw.ev \o <<Ev("extract", "partial")>>, "OSError", "None")
        ELSE Result(ex.fs, info \o cw.ev \o <<Ev("extract", "all"), Finished>>, "none", "None")

(***************************************************************************)
(* Copying.                                                                *)
(***************************************************************************)
\* the regular files below directory src, relative to it
TreeFiles(f, src) ==
    {SubSeq(p, Len(src) + 1, Len(p)) : p \in {q \in DOMAIN f.files : IsPrefix(src, q) /\ q # src}}

\* the directories below directory src, relative to it
TreeDirs(f, src) ==
    {SubSeq(p, Len(src) + 1, Len(p)) : p \in {q \in f.dirs : IsPrefix(src, q) /\ q # src}}

\* the orders in which a directory listing may return the files of a tree
Orders(S) == {s \in [1..Cardinality(S) -> S] : \A i, j \in 1..Cardinality(S) : s[i] = s[j] => i = j}

\* distutils.file_util.copy_file(src, dst): a dst that is a directory receives the
\* file under its own name
copy_file(f, srcFile, dst) ==
    LET target == IF isdir(f, dst) THEN join(dst, basename(srcFile)) ELSE dst
    IN  write_file(f, target, f.files[srcFile])

\* distutils.dir_util.copy_tree(src, dst): the files of src in listing order
RECURSIVE copy_tree(_, _, _, _)
copy_tree(f, src, dst, order) ==
    IF order = <<>> THEN [ok |-> TRUE, fs |-> f]
    ELSE LET w == copy_file(f, src \o Head(order), dst \o Head(order))
         IN  IF w.ok THEN copy_tree(w.fs, src, dst, Tail(order)) ELSE w

\* the directories of src created in dst by copy_tree (mkpath), empty ones included
RECURSIVE mkpaths(_, _)
mkpaths(f, ds) ==
    IF ds = {} THEN [ok |-> TRUE, fs |-> f]
    ELSE LET d == CHOOSE x \in ds : \A y \in ds : Len(x) <= Len(y)
             mk == IF isdir(f, d) THEN [ok |-> TRUE, fs |-> f] ELSE makedirs(f, d)
         IN  IF mk.ok THEN mkpaths(mk.fs, ds \ {d}) ELSE mk

\* mutant of copyFiles: the parent of dstPath is not looked at and the answer of
\* checkWritePermissions is ignored
copyFilesUnchecked(f, srcPath, dstPath, checkDstParentExists, order) ==
    LET info == <<Ev("log.info", "Copying files")>>
        cw == checkWritePermissions(f, dstPath)
        md == mkpaths(cw.fs, {dstPath \o d : d \in TreeDirs(cw.fs, srcPath)})
        ct == copy_tree(md.fs, srcPath, dstPath, order)
    IN  IF ~md.ok \/ ~ct.ok
        THEN Result(ct.fs, info \o cw.ev, "DistutilsFileError", "None")
        ELSE Result(ct.fs, info \o cw.ev \o <<Ev("copy", "tree"), Finished>>, "none", "None")

\* copyFiles(srcPath, dstPath, checkDstParentExists); order is the listing order
\* of the files of srcPath when it is a directory
copyFiles(f, srcPath, dstPath, checkDstParentExists, order) ==
    LET info == <<Ev("log.info", "Copying files")>>
        cw == checkWritePermissions(f, dstPath)
        md == mkpaths(cw.fs, {dstPath \o d : d \in TreeDirs(cw.fs, srcPath)})
        ct == copy_tree(md.fs, srcPath, dstPath, order)
        cf == copy_file(cw.fs, srcPath, dstPath)
        nosrc == "Cannot find the source directory! No files were copied."
    IN  IF checkDstParentExists /\ ~isdir(f, dirname(dstPath))
        THEN LET e == error_exit(f, "Could not find the destination directory! No files were copied.")
             IN  Result(e.fs, info \o e.ev, "none", "None")
        ELSE IF cw.ret # "True"
        THEN LET e == error_exit(cw.fs, "You do not have permissions to write to destination directory!")
             IN  Result(e.fs, info \o cw.ev \o e.ev, "none", "None")
        ELSE IF isdir(cw.fs, srcPath)
        THEN IF ~md.ok THEN Result(md.fs, info \o cw.ev, "DistutilsFileError", "None")
             ELSE IF ~ct.ok THEN Result(ct.fs, info \o cw.ev \o <<Ev("copy", "partial")>>,
                                        "DistutilsFileError", "None")
             ELSE Result(ct.fs, info \o cw.ev \o <<Ev("copy", "tree"), Finished>>, "none", "None")
        ELSE IF isfile(cw.fs, srcPath)
        THEN IF ~cf.ok THEN Result(cf.fs, info \o cw.ev, "OSError", "None")
             ELSE Result(cf.fs, info \o cw.ev \o <<Ev("copy", "file"), Finished>>, "none", "None")
        ELSE Result(cw.fs, info \o cw.ev \o <<Ev("log.error", nosrc), Ev("popup", nosrc), Finished>>,
                    "none", "None")

\* deleteDir(dirPath): shutil.rmtree(dirPath, ignore_errors=True) removes what it
\* can of the tree and never raises
deleteDir(f, dirPath) ==
    LET gone(p) == /\ IsPrefix(dirPath, p)
                   /\ dirname(p) \notin f.ro /\ dirname(p) \notin f.nodel
        keptFiles == {p \in DOMAIN f.files : ~(isdir(f, dirPath) /\ gone(p))}
        \* a directory goes when it can be removed and nothing below it stays
        keptDirs == {d \in f.dirs :
                        \/ ~(isdir(f, dirPath) /\ gone(d))
                        \/ \E p \in keptFiles : IsPrefix(d, p)
                        \/ \E e \in f.dirs : IsPrefix(d, e) /\ e # d /\ ~gone(e)}
    IN  Result([f EXCEPT !.files = [p \in keptFiles |-> f.files[p]],
                         !.dirs = keptDirs,
                         !.ro = @ \cap keptDirs, !.nodel = @ \cap keptDirs],
               <<Ev("log.info", "Deleting dir"), <<"deleteDir", basename(dirPath)>> >>,
               "none", "None")

(***************************************************************************)
(* External processes.  A command is [list, tokens]: a Python list of      *)
(* tokens, or one string in which the tokens are separated by spaces.      *)
(* Each token is written as a path.                                        *)
(***************************************************************************)
\* the path named by the string "a b"
JoinSp(a, b) ==
    IF a = <<>> THEN b
    ELSE IF b = <<>> THEN a
    ELSE dirname(a) \o <<(basename(a) \o " " \o Head(b))>> \o Tail(b)

\* the path named by the whole command string
RECURSIVE CommandString(_)
CommandString(tokens) ==
    IF tokens = <<>> THEN <<>> ELSE JoinSp(Head(tokens), CommandString(Tail(tokens)))

\* what a launched process does with the pipe execSubprocess reads: it keeps its
\* output open until it exits, or it closes its output and goes on running
ProcEnds == {"exit", "closes_output"}

\* execSubprocess(command): checks that c (element 0 of a list, the whole of a
\* string) is a file, launches the process through the shell and reads its
\* output to the end of the stream; the Popen object is dropped and never waited
\* on, so the call returns at the end of the stream, the process exited or not
execSubprocess(f, command, proc) ==
    LET info == <<Ev("log.info", "Running binary installer")>>
        c == IF command.list THEN Head(command.tokens) ELSE CommandString(command.tokens)
        name == basename(Head(command.tokens))
        missing == "Could not find the installation file for this component! Skipping to next component"
    IN  IF ~isfile(f, c)
        THEN Result(f, info \o <<Ev("popup", missing)>>, "none", "None")
        ELSE Result(f, info \o <<Ev("launch", name)>>
                            \o (IF proc = "exit" THEN <<Ev("exit", name)>> ELSE <<>>)
                            \o <<Ev("eof", name)>>,
                    "none", "None")

\* how a command run by check_output ends: exit status 0, a non-zero exit status
\* (CalledProcessError) or any other exception (the program cannot be started)
CmdOutcomes == {"ok", "nonzero", "error"}

\* mutant of execute_cmd: finished is emitted at the end of the try block, not in
\* a finally clause
execute_cmdNoFinally(f, cmd, shell, notify, outcome) ==
    LET info == <<Ev("log.info", "Executing command"), Ev("cmd", cmd)>>
    IN  IF outcome = "ok"
        THEN Result(f, info \o <<Ev("log.info", "output"), Finished>>, "none", "None")
        ELSE IF outcome = "nonzero"
        THEN Result(f, info \o _log_traceback(notify, FALSE).ev, "none", "None")
        ELSE Result(f, info, "OSError", "None")

\* execute_cmd(cmd, shell, notify)
execute_cmd(f, cmd, shell, notify, outcome) ==
    LET info == <<Ev("log.info", "Executing command"), Ev("cmd", cmd)>>
        tb == _log_traceback(notify, FALSE)
    IN  CASE outcome = "ok" ->
               Result(f, info \o <<Ev("log.info", "output"), Finished>>, "none", "None")
          [] outcome = "nonzero" ->
               Result(f, info \o tb.ev \o <<Finished>>,
                      IF tb.reraise THEN "CalledProcessError" ELSE "none", "None")
          [] OTHER ->
               Result(f, info \o <<Finished>>, "OSError", "None")

\* cmd_install_pip_offline(osgeo_root, package_dir): line 375 raises the value
\* error_exit returns, None, which is a TypeError
cmd_install_pip_offline(f, osgeo_root, package_dir) ==
    LET requirements_file == join(package_dir, "requirements.txt")
        osgeo_envbat == join(join(osgeo_root, "bin"), "o4w_env.bat")
        info == <<Ev("log.info", "Installing with pip install -r")>>
        e1 == IF ~isfile(f, requirements_file)
              THEN error_exit(f, "No requirements file found").ev ELSE <<>>
    IN  IF ~isfile(f, osgeo_envbat)
        THEN Result(f, info \o e1 \o error_exit(f, "No OSGeo env bat file found").ev,
                    "TypeError", "None")
        ELSE Result(f, info \o e1, "none", "pip install")

(***************************************************************************)
(* Settings.  A value is written as a path (a one-component path for       *)
(* 'true' and 'false').                                                    *)
(***************************************************************************)
\* setQGISSettings(name, value)
setQGISSettings(name, value) == << <<"set", name, value>> >>

\* activateThis(*names)
RECURSIVE activateThis(_)
activateThis(names) ==
    IF names = <<>> THEN <<>>
    ELSE setQGISSettings(Head(names), <<"true">>) \o activateThis(Tail(names))

\* activatePlugins()
activatePlugins ==
    activateThis(<<"PythonPlugins/LecoS", "PythonPlugins/quick_map_services",
                   "PythonPlugins/pointsamplingtool", "PythonPlugins/processing_gpf",
                   "PythonPlugins/processing_workflow", "plugins/ThRasE">>)

\* the names glob's grass* matches among those the model uses, and their
\* lexicographic rank ('-' sorts before the digits)
GrassNames == {"grass-7.8", "grass76", "grass78"}

LexRank(n) == CASE n = "grass-7.8" -> 1 [] n = "grass76" -> 2 [] n = "grass78" -> 3 [] OTHER -> 0

\* "grass-" in name
HasGrassDash(n) == n = "grass-7.8"

\* the names glob's OTB-* matches among those the model uses
OtbNames == {"OTB-7.3.0-Win64"}

\* the flags activateProcessingProviders writes before it looks for folders
FixedProviderFlags ==
    setQGISSettings("Processing/configuration/ACTIVATE_GRASS70", <<"true">>)
    \o activateThis(<<"Processing/configuration/ACTIVATE_MODEL",
                      "Processing/configuration/ACTIVATE_QGIS",
                      "Processing/configuration/ACTIVATE_SAGA",
                      "Processing/configuration/ACTIVATE_SCRIPT",
                      "Processing/configuration/ACTIVATE_WORKFLOW",
                      "Processing/configuration/ACTIVATE_GWA_TBX",
                      "Processing/Configuration/OTB_ACTIVATE",
                      "Processing/configuration/GRASS_LOG_COMMANDS",
                      "Processing/configuration/GRASS_LOG_CONSOLE",
                      "Processing/configuration/SAGA_LOG_COMMANDS",
                      "Processing/configuration/SAGA_LOG_CONSOLE",
                      "Processing/configuration/USE_FILENAME_AS_LAYER_NAME",
                      "Processing/configuration/TASKBAR_BUTTON_GWA_TBX">>)
    \o setQGISSettings("Processing/configuration/TASKBAR_BUTTON_WORKFLOW", <<"false">>)

\* sorted([d for d in glob(grass_root/grass*) if isdir(d)])[-1], or <<>> when the
\* list is empty
LastGrassFolder(f, osgeodir) ==
    LET grass_root == join(join(osgeodir, "apps"), "grass")
        grass_folders == {d \in f.dirs : dirname(d) = grass_root /\ basename(d) \in GrassNames}
    IN  IF grass_folders = {} THEN <<>>
        ELSE CHOOSE d \in grass_folders :
                 \A e \in grass_folders : LexRank(basename(e)) <= LexRank(basename(d))

\* glob(osgeodir/apps/OTB-*), files and directories alike
OtbFolders(f, osgeodir) ==
    {d \in f.dirs \cup DOMAIN f.files :
        dirname(d) = join(osgeodir, "apps") /\ basename(d) \in OtbNames}

\* activateProcessingProviders(osgeodir); xcopy is how the Xcopy command run under
\* the wait window ends.  Indexing an empty list raises IndexError, which the
\* except (ValueError) clause of line 545 does not catch.
activateProcessingProviders(f, osgeodir, xcopy) ==
    LET grassFolder == LastGrassFolder(f, osgeodir)
        cp == IF ~HasGrassDash(basename(grassFolder))
              THEN execute_cmd(f, "Xcopy /E /I", FALSE, FALSE, xcopy)
              ELSE Result(f, <<>>, "none", "None")
        otb == OtbFolders(f, osgeodir)
        otb_folder == CHOOSE d \in otb : TRUE
    IN  IF grassFolder = <<>>
        THEN Result(f, FixedProviderFlags, "IndexError", "None")
        ELSE IF cp.exc # "none"
        THEN Result(f, FixedProviderFlags \o cp.ev, cp.exc, "None")
        ELSE IF otb = {}
        THEN Result(f, FixedProviderFlags \o cp.ev, "IndexError", "None")
        ELSE Result(f, FixedProviderFlags \o cp.ev
                       \o setQGISSettings("Processing/Configuration/OTB_FOLDER", otb_folder)
                       \o setQGISSettings("Processing/Configuration/OTB_APP_FOLDER",
                                          otb_folder \o <<"lib", "otb", "applications">>),
                    "none", "None")

\* activateSNAPplugin(dirPath)
activateSNAPplugin(dirPath) ==
    activateThis(<<"PythonPlugins/processing_gpf", "Processing/configuration/ACTIVATE_SNAP">>)
    \o activateThis(<<"Processing/configuration/S1TBX_ACTIVATE",
                      "Processing/configuration/S2TBX_ACTIVATE">>)
    \o setQGISSettings("Processing/configuration/SNAP_FOLDER", dirPath)

\* activateRplugin(dirPath, use64)
activateRplugin(dirPath, use64) ==
    activateThis(<<"PythonPlugins/processing_r">>)
    \o setQGISSettings("Processing/configuration/R_FOLDER", dirPath)
    \o setQGISSettings("Processing/configuration/R_USE64", use64)

\* the settings store after the "set" events of ev, in order
RECURSIVE ApplySettings(_, _)
ApplySettings(S, ev) ==
    IF ev = <<>> THEN S
    ELSE IF Head(ev)[1] = "set"
    THEN ApplySettings({e \in S : e[1] # Head(ev)[2]} \cup {<<Head(ev)[2], Head(ev)[3]>>}, Tail(ev))
    ELSE ApplySettings(S, Tail(ev))

(***************************************************************************)
(* Installer.runInstaller.                                                 *)
(***************************************************************************)
\* the outcomes of a step dialog (installerGUI); UNKNOWN is any other value
NEXT == "NEXT"

SKIP == "SKIP"

CANCEL == "CANCEL"

UNKNOWN == "UNKNOWN"

Outcomes == {NEXT, SKIP, CANCEL, UNKNOWN}

\* the step dialogs in the order of the code
Steps == <<"welcome", "uninstall", "osgeo_install", "osgeo_dir", "snap_install",
           "r_install", "r_dir", "finish">>

StepSet == {Steps[i] : i \in 1..Len(Steps)}

StepIndex(s) == CHOOSE i \in 1..Len(Steps) : Steps[i] = s

\* lines 57-59
DefaultDirs == [OSGeo4W |-> <<"C:", "OSGeo4W64">>,
                SNAP |-> <<"C:", "Program Files", "SNAP">>,
                R |-> <<"C:", "Program Files", "R", "R-3.3.3">>]

UnboundDirs == [OSGeo4W |-> <<>>, SNAP |-> <<>>, R |-> <<>>]

\* what the operator may leave in the directory field of a DirPathPostInstallWindow
DirTexts(component) == {DefaultDirs[component], <<"D:", "custom">>}

\* lines 62-69
installationsDir == <<"Installations_x64">>

osgeo4wInstall == [list |-> FALSE, tokens |-> <<join(installationsDir, "osgeo4w-setup.bat")>>]

otbInstall == join(installationsDir, "OTB-7.3.0-Win64.zip")

snapInstall ==
    [list |-> TRUE,
     tokens |-> <<join(installationsDir, "esa-snap_sentinel_windows-x64_8_0.exe"), <<"-q">>,
                  <<"-varfile">>, <<"SNAP_response_install4j.varfile">>,
                  <<"-splash">>, <<"\"SNAP installation\"">> >>]

rInstall == [list |-> FALSE, tokens |-> <<join(installationsDir, "R-3.3.3-win.exe")>>]

\* line 44
qgis_profile_path == <<"~", "AppData", "Roaming", "QGIS", "QGIS3", "profiles", "default">>

\* line 117
QGIS_extras_dir == <<"QGIS additional software">>

\* lines 122-130: no comma separates 'pointsamplingtool' and 'processing_gpf', so
\* Python joins the two literals into one element
plugins_to_delete ==
    <<"LecoS", "openlayers_plugin", "pointsamplingtool" \o "processing_gpf",
      "processing_workflow", "processing-r", "temporalprofiletool", "ThRasE">>

(***************************************************************************)
(* The file systems a call of runInstaller may meet.  The installers run   *)
(* between the calls are black boxes, so each call draws its file system   *)
(* anew from the cases that decide it.                                     *)
(***************************************************************************)
\* the installer file is there, or not
ExecEnv(command) == {NoFs, MkFs(OneFile(Head(command.tokens), "x"), {}, {}, {})}

\* no archive; an archive and a destination to create; a read-only destination;
\* a file that is no zip archive
UnzipEnv(a, d) ==
    {MkFs(EmptyFiles, {dirname(d)}, {}, {}),
     MkFs(OneFile(a, "zipB"), {dirname(d)}, {}, {}),
     MkFs(OneFile(a, "zipB"), {d}, {d}, {}),
     MkFs(OneFile(a, "x"), {d}, {}, {})}

\* the file systems met by unzipArchive on an archive that glob has just listed
\* (lines 139-144, 149-153): the archive is there
GlobbedEnv(a, d) == {f \in UnzipEnv(a, d) : isfile(f, a)}

\* no parent of the destination; a read-only destination; a source directory
\* with one file; no source
CopyEnv(s, d) ==
    {MkFs(EmptyFiles, {}, {}, {}),
     MkFs(OneFile(join(s, "m"), "x"), {d}, {d}, {}),
     MkFs(OneFile(join(s, "m"), "x"), {d}, {}, {}),
     MkFs(EmptyFiles, {d}, {}, {})}

\* requirements.txt and o4w_env.bat, each there or not
PipEnv(root, pkg) ==
    {MkFs([p \in (IF req THEN {join(pkg, "requirements.txt")} ELSE {})
                 \cup (IF bat THEN {root \o <<"bin", "o4w_env.bat">>} ELSE {}) |-> "x"],
          {}, {}, {}) : req \in BOOLEAN, bat \in BOOLEAN}

\* GRASS folders and OTB folders under apps
ProvEnv(root) ==
    {MkFs(EmptyFiles,
          {root \o <<"apps", "grass", g>> : g \in G} \cup {root \o <<"apps", o>> : o \in O}
              \cup {root},
          {}, {}) :
        G \in {{}, {"grass78"}, {"grass-7.8", "grass76"}}, O \in SUBSET OtbNames}

\* mutant of Present: the dialog is presented a second time before its outcome is
\* taken
PresentAgain(step, r) ==
    /\ res' = [res EXCEPT ![step] = r]
    /\ shown' = shown \o <<step, step>>

\* a step dialog is presented and returns r: the events of the step start anew
Present(step, r) ==
    /\ res' = [res EXCEPT ![step] = r]
    /\ shown' = Append(shown, step)

\* control reaches the statement after the if with nothing done
Proceed(nextPc) ==
    /\ pc' = nextPc
    /\ stepLog' = <<>>
    /\ UNCHANGED <<status, exc>>

\* mutant of OnCancel: the CANCEL branch does not return
OnCancelFallsThrough(nextPc) == Proceed(nextPc)

\* del self.dialog; return (lines 72-73, 82-83, 104-105, 169-170, 240-241,
\* 259-260, 275-276)
OnCancel(nextPc) ==
    /\ pc' = "done"
    /\ status' = "returned"
    /\ stepLog' = <<>>
    /\ UNCHANGED exc

\* unknownActionPopup(): shows the message box and returns
unknownActionPopup ==
    <<Ev("popup", "Unknown action chosen in the previous installation step. Quitting installation")>>

\* the else branch of a step (lines 74-75, 106-107, 171-172, 242-243, 261-262,
\* 277-278): the popup, then the statement after the if
OnUnknown(nextPc) ==
    /\ pc' = nextPc
    /\ stepLog' = unknownActionPopup
    /\ UNCHANGED <<status, exc>>

\* mutant of OnSkip: the SKIP branch runs the installer of the step
OnSkipRunsInstaller(nextPc) ==
    /\ pc' = nextPc
    /\ stepLog' = <<Ev("launch", "setup.exe")>>
    /\ UNCHANGED <<status, exc>>

\* elif res == SKIP: pass
OnSkip(nextPc) == Proceed(nextPc)

\* an exception leaves runInstaller
Raise(e) ==
    /\ pc' = "done"
    /\ status' = "raised"
    /\ exc' = e

\* the effect of a Utilities call with result r, made directly or under a wait
\* window: its events, the settings it wrote, and its exception if it raised
\* (v is the value of r, computed once)
Perform(r, nextPc) ==
    \E v \in {r} :
        /\ stepLog' = stepLog \o v.ev
        /\ settings' = ApplySettings(settings, v.ev)
        /\ IF v.exc # "none" THEN Raise(v.exc)
           ELSE pc' = nextPc /\ UNCHANGED <<status, exc>>

\* a Utilities call made by a wait window (extractingWaitWindow, copyingWaitWindow,
\* cmdWaitWindow of installerGUI): the window runs the call and closes when it is
\* over; an exception of the call ends the run
UnderWaitWindow(r, nextPc) == Perform(r, nextPc)

Running(p) == status = "running" /\ pc = p

\* the step's NEXT branch begins
Begin(step, firstPc) ==
    /\ pc' = firstPc
    /\ stepLog' = <<>>
    /\ progress' = [progress EXCEPT ![step] = "started"]
    /\ UNCHANGED <<status, exc>>

\* the step's NEXT branch has run to its end unless the call r raised
Complete(step, r) ==
    progress' = [progress EXCEPT ![step] = IF r.exc = "none" THEN "done" ELSE @]

\* lines 51-75: the welcome window; NEXT binds the locals, any outcome other than
\* NEXT and CANCEL (SKIP too) takes the else branch
ShowWelcome ==
    /\ Running("welcome")
    /\ \E r \in Outcomes :
        /\ Present("welcome", r)
        /\ CASE r = NEXT ->
                  /\ install_dirs' = DefaultDirs
                  /\ localsBound' = TRUE
                  /\ Proceed("uninstall")
             [] r = CANCEL -> OnCancel("uninstall") /\ UNCHANGED <<install_dirs, localsBound>>
             [] OTHER -> OnUnknown("uninstall") /\ UNCHANGED <<install_dirs, localsBound>>
    /\ UNCHANGED <<progress, settings, site_packages_dir, pending>>
    /\ UNCHANGED utilVars

\* lines 79-83: the uninstall instructions; only CANCEL is looked at
ShowUninstall ==
    /\ Running("uninstall")
    /\ \E r \in Outcomes :
        /\ Present("uninstall", r)
        /\ IF r = CANCEL THEN OnCancel("osgeo_install") ELSE Proceed("osgeo_install")
    /\ UNCHANGED <<progress, settings, install_dirs, localsBound, site_packages_dir, pending>>
    /\ UNCHANGED utilVars

\* lines 91-107: GenericInstallWindow('OSGeo4W')
ShowOsgeoInstall ==
    /\ Running("osgeo_install")
    /\ \E r \in Outcomes :
        /\ Present("osgeo_install", r)
        /\ CASE r = NEXT -> Begin("osgeo_install", "osgeo_exec")
             [] r = SKIP -> OnSkip("osgeo_dir") /\ UNCHANGED progress
             [] r = CANCEL -> OnCancel("osgeo_dir") /\ UNCHANGED progress
             [] OTHER -> OnUnknown("osgeo_dir") /\ UNCHANGED progress
    /\ UNCHANGED <<settings, install_dirs, localsBound, site_packages_dir, pending>>
    /\ UNCHANGED utilVars

\* line 96: execSubprocess(osgeo4wInstall); the local is unbound when the welcome
\* window took the else branch
OsgeoExec ==
    /\ Running("osgeo_exec")
    /\ IF ~localsBound
       THEN Raise("UnboundLocalError") /\ UNCHANGED <<stepLog, settings>>
       ELSE \E f \in ExecEnv(osgeo4wInstall), proc \in ProcEnds :
                Perform(execSubprocess(f, osgeo4wInstall, proc), "osgeo_otb")
    /\ UNCHANGED <<res, shown, progress, install_dirs, localsBound, site_packages_dir, pending>>
    /\ UNCHANGED utilVars

\* lines 97-100: extractingWaitWindow(otbInstall, <OSGeo4W>/apps)
OsgeoExtractOtb ==
    /\ Running("osgeo_otb")
    /\ \E f \in UnzipEnv(otbInstall, join(install_dirs.OSGeo4W, "apps")) :
        LET r == unzipArchive(f, otbInstall, join(install_dirs.OSGeo4W, "apps"))
        IN  UnderWaitWindow(r, "osgeo_dir") /\ Complete("osgeo_install", r)
    /\ UNCHANGED <<res, shown, install_dirs, localsBound, site_packages_dir, pending>>
    /\ UNCHANGED utilVars

\* lines 110-172: DirPathPostInstallWindow('OSGeo4W', install_dirs['OSGeo4W']);
\* building the window reads install_dirs
ShowOsgeoDir ==
    /\ Running("osgeo_dir")
    /\ IF ~localsBound
       THEN /\ Raise("UnboundLocalError")
            /\ UNCHANGED <<res, shown, stepLog, progress, install_dirs>>
       ELSE \E r \in Outcomes :
            /\ Present("osgeo_dir", r)
            /\ CASE r = NEXT ->
                      /\ \E d \in DirTexts("OSGeo4W") :
                            install_dirs' = [install_dirs EXCEPT !.OSGeo4W = d]
                      /\ Begin("osgeo_dir", "plugins_delete")
                 [] r = SKIP -> OnSkip("snap_install") /\ UNCHANGED <<progress, install_dirs>>
                 [] r = CANCEL -> OnCancel("snap_install") /\ UNCHANGED <<progress, install_dirs>>
                 [] OTHER -> OnUnknown("snap_install") /\ UNCHANGED <<progress, install_dirs>>
    /\ UNCHANGED <<settings, localsBound, site_packages_dir, pending>>
    /\ UNCHANGED utilVars

\* lines 131-133: deleteDir on <dstPath>/<plugin> for each element of the list
RECURSIVE DeleteAll(_, _, _)
DeleteAll(f, dstPath, plugins) ==
    IF plugins = <<>> THEN Result(f, <<>>, "none", "None")
    ELSE LET d == deleteDir(f, join(dstPath, Head(plugins)))
         IN  [DeleteAll(d.fs, dstPath, Tail(plugins)) EXCEPT !.ev = d.ev \o @]

\* lines 117-133
DeleteOldPlugins ==
    /\ Running("plugins_delete")
    /\ Perform(DeleteAll(NoFs, qgis_profile_path \o <<"python", "plugins">>, plugins_to_delete),
               "plugins_extract")
    /\ UNCHANGED <<res, shown, progress, install_dirs, localsBound, site_packages_dir, pending>>
    /\ UNCHANGED utilVars

\* lines 134-140: plugins.zip is extracted, then the processing packages are listed
ExtractPlugins ==
    /\ Running("plugins_extract")
    /\ LET dstPath == qgis_profile_path \o <<"python", "plugins">>
           srcPath == QGIS_extras_dir \o <<"plugins", "plugins.zip">>
       IN  \E f \in UnzipEnv(srcPath, dstPath) :
               LET r == unzipArchive(f, srcPath, dstPath)
               IN  /\ UnderWaitWindow(r, "processing_zips")
                   /\ IF r.exc = "none" THEN pending' \in 0..MaxZips ELSE UNCHANGED pending
    /\ UNCHANGED <<res, shown, progress, install_dirs, localsBound, site_packages_dir>>
    /\ UNCHANGED utilVars

\* lines 141-144: one turn of the loop over the processing packages
ExtractProcessingPackage ==
    /\ Running("processing_zips")
    /\ pending > 0
    /\ LET zipfname == join(QGIS_extras_dir, "package.zip")
           processing_dir == join(qgis_profile_path, "processing")
       IN  \E f \in GlobbedEnv(zipfname, processing_dir) :
               UnderWaitWindow(unzipArchive(f, zipfname, processing_dir), "processing_zips")
    /\ pending' = pending - 1
    /\ UNCHANGED <<res, shown, progress, install_dirs, localsBound, site_packages_dir>>
    /\ UNCHANGED utilVars

\* lines 147-150: site_packages_dir is bound and the python packages are listed
ListPythonPackages ==
    /\ Running("processing_zips")
    /\ pending = 0
    /\ site_packages_dir' = install_dirs.OSGeo4W \o <<"apps", "Python37", "Lib", "site-packages">>
    /\ pending' \in 0..MaxZips
    /\ pc' = "python_zips"
    /\ UNCHANGED <<res, shown, progress, stepLog, settings, install_dirs, localsBound, status, exc>>
    /\ UNCHANGED utilVars

\* lines 151-153: one turn of the loop over the python packages
ExtractPythonPackage ==
    /\ Running("python_zips")
    /\ pending > 0
    /\ LET zipfname == QGIS_extras_dir \o <<"python_packages", "package.zip">>
       IN  \E f \in GlobbedEnv(zipfname, site_packages_dir) :
               UnderWaitWindow(unzipArchive(f, zipfname, site_packages_dir), "python_zips")
    /\ pending' = pending - 1
    /\ UNCHANGED <<res, shown, progress, install_dirs, localsBound, site_packages_dir>>
    /\ UNCHANGED utilVars

\* lines 156-159: cmd_install_pip_offline builds the command
PipCmd ==
    /\ Running("python_zips")
    /\ pending = 0
    /\ LET pip_package_dir == join(QGIS_extras_dir, "python_packages_pip")
       IN  \E f \in PipEnv(install_dirs.OSGeo4W, pip_package_dir) :
               Perform(cmd_install_pip_offline(f, install_dirs.OSGeo4W, pip_package_dir),
                       "pip_run")
    /\ UNCHANGED <<res, shown, progress, install_dirs, localsBound, site_packages_dir, pending>>
    /\ UNCHANGED utilVars

\* lines 160-161: cmdWaitWindow(cmd, shell=True, notify=True)
PipRun ==
    /\ Running("pip_run")
    /\ \E outcome \in CmdOutcomes :
        UnderWaitWindow(execute_cmd(NoFs, "pip install", TRUE, TRUE, outcome), "activate_plugins")
    /\ UNCHANGED <<res, shown, progress, install_dirs, localsBound, site_packages_dir, pending>>
    /\ UNCHANGED utilVars

\* line 164
ActivatePlugins ==
    /\ Running("activate_plugins")
    /\ Perform(Result(NoFs, activatePlugins, "none", "None"), "activate_providers")
    /\ UNCHANGED <<res, shown, progress, install_dirs, localsBound, site_packages_dir, pending>>
    /\ UNCHANGED utilVars

\* line 165
ActivateProviders ==
    /\ Running("activate_providers")
    /\ \E f \in ProvEnv(install_dirs.OSGeo4W), xcopy \in CmdOutcomes :
        LET r == activateProcessingProviders(f, install_dirs.OSGeo4W, xcopy)
        IN  Perform(r, "snap_install") /\ Complete("osgeo_dir", r)
    /\ UNCHANGED <<res, shown, install_dirs, localsBound, site_packages_dir, pending>>
    /\ UNCHANGED utilVars

\* lines 177-243: GenericInstallWindow('SNAP')
ShowSnapInstall ==
    /\ Running("snap_install")
    /\ \E r \in Outcomes :
        /\ Present("snap_install", r)
        /\ CASE r = NEXT -> Begin("snap_install", "snap_exec")
             [] r = SKIP -> OnSkip("r_install") /\ UNCHANGED progress
             [] r = CANCEL -> OnCancel("r_install") /\ UNCHANGED progress
             [] OTHER -> OnUnknown("r_install") /\ UNCHANGED progress
    /\ UNCHANGED <<settings, install_dirs, localsBound, site_packages_dir, pending>>
    /\ UNCHANGED utilVars

\* line 182: execSubprocess(snapInstall)
SnapExec ==
    /\ Running("snap_exec")
    /\ \E f \in ExecEnv(snapInstall), proc \in ProcEnds :
        Perform(execSubprocess(f, snapInstall, proc), "snap_jpy")
    /\ UNCHANGED <<res, shown, progress, install_dirs, localsBound, site_packages_dir, pending>>
    /\ UNCHANGED utilVars

\* lines 185-192: jpyconfig.py is looked up in site_packages_dir, which only the
\* NEXT branch of the OSGeo4W directory step binds (line 147); then
\* installer_utils.fix_jpyconfig patches the file and site_packages_dir is bound
\* again
SnapJpyconfig ==
    /\ Running("snap_jpy")
    /\ IF site_packages_dir = <<>>
       THEN Raise("UnboundLocalError") /\ UNCHANGED <<stepLog, site_packages_dir>>
       ELSE /\ stepLog' = Append(stepLog, Ev("fix_jpyconfig", "jpyconfig.py"))
            /\ site_packages_dir' =
                   install_dirs.OSGeo4W \o <<"apps", "Python37", "lib", "site-packages">>
            /\ pc' = "snap_snappy"
            /\ UNCHANGED <<status, exc>>
    /\ UNCHANGED <<res, shown, progress, settings, install_dirs, localsBound, pending>>
    /\ UNCHANGED utilVars

\* lines 193-195: snap64.exe --nogui --python <python> <site-packages>
SnapSnappy ==
    /\ Running("snap_snappy")
    /\ LET command == [list |-> TRUE,
                       tokens |-> <<install_dirs.SNAP \o <<"bin", "snap64.exe">>, <<"--nogui">>,
                                    <<"--python">>,
                                    install_dirs.OSGeo4W \o <<"bin", "python-qgis-ltr.bat">>,
                                    site_packages_dir>>]
       IN  \E f \in ExecEnv(command), proc \in ProcEnds :
               Perform(execSubprocess(f, command, proc), "snap_configure")
    /\ UNCHANGED <<res, shown, progress, install_dirs, localsBound, site_packages_dir, pending>>
    /\ UNCHANGED utilVars

\* lines 198-223: snappy.ini is written, gpt.vmoptions is patched
\* (installer_utils.modifyRamInBatFiles) and s3tbx.properties is appended to; an
\* IOError of the first and third is logged, one of the second goes to error_exit
SnapConfigure ==
    /\ Running("snap_configure")
    /\ \E iniOk \in BOOLEAN, ramOk \in BOOLEAN, propOk \in BOOLEAN :
        Perform(Result(NoFs,
                       <<Ev("log.info", "Java max mem")>>
                       \o <<IF iniOk THEN Ev("write", "snappy.ini")
                            ELSE Ev("log.warn", "Could not find snappy.ini to set max memory")>>
                       \o (IF ramOk THEN <<Ev("write", "gpt.vmoptions")>>
                           ELSE error_exit(NoFs, "IOError").ev)
                       \o <<IF propOk THEN Ev("append", "s3tbx.properties")
                            ELSE Ev("log.warn", "Could not set options in s3tbx.properties.")>>,
                       "none", "None"),
                "snap_copy")
    /\ UNCHANGED <<res, shown, progress, install_dirs, localsBound, site_packages_dir, pending>>
    /\ UNCHANGED utilVars

\* lines 226-229: copyingWaitWindow("SNAP additional modules", install_dirs['SNAP'])
SnapCopyModules ==
    /\ Running("snap_copy")
    /\ LET srcPath == <<"SNAP additional modules">>
           dstPath == install_dirs.SNAP
       IN  \E f \in CopyEnv(srcPath, dstPath) :
               \E order \in Orders(TreeFiles(f, srcPath)) :
                   UnderWaitWindow(copyFiles(f, srcPath, dstPath, TRUE, order), "snap_update")
    /\ UNCHANGED <<res, shown, progress, install_dirs, localsBound, site_packages_dir, pending>>
    /\ UNCHANGED utilVars

\* lines 230-232: snap64.exe --nogui --modules --update-all
SnapUpdate ==
    /\ Running("snap_update")
    /\ LET snapUpdate == [list |-> TRUE,
                          tokens |-> <<install_dirs.SNAP \o <<"bin", "snap64.exe">>, <<"--nogui">>,
                                       <<"--modules">>, <<"--update-all">> >>]
       IN  \E f \in ExecEnv(snapUpdate), proc \in ProcEnds :
               Perform(execSubprocess(f, snapUpdate, proc), "snap_activate")
    /\ UNCHANGED <<res, shown, progress, install_dirs, localsBound, site_packages_dir, pending>>
    /\ UNCHANGED utilVars

\* line 235: activateSNAPplugin(install_dirs['SNAP'])
SnapActivate ==
    /\ Running("snap_activate")
    /\ LET r == Result(NoFs, activateSNAPplugin(install_dirs.SNAP), "none", "None")
       IN  Perform(r, "r_install") /\ Complete("snap_install", r)
    /\ UNCHANGED <<res, shown, install_dirs, localsBound, site_packages_dir, pending>>
    /\ UNCHANGED utilVars

\* lines 248-262: GenericInstallWindow('R')
ShowRInstall ==
    /\ Running("r_install")
    /\ \E r \in Outcomes :
        /\ Present("r_install", r)
        /\ CASE r = NEXT -> Begin("r_install", "r_exec")
             [] r = SKIP -> OnSkip("r_dir") /\ UNCHANGED progress
             [] r = CANCEL -> OnCancel("r_dir") /\ UNCHANGED progress
             [] OTHER -> OnUnknown("r_dir") /\ UNCHANGED progress
    /\ UNCHANGED <<settings, install_dirs, localsBound, site_packages_dir, pending>>
    /\ UNCHANGED utilVars

\* line 253: execSubprocess(rInstall)
RExec ==
    /\ Running("r_exec")
    /\ \E f \in ExecEnv(rInstall), proc \in ProcEnds :
        LET r == execSubprocess(f, rInstall, proc)
        IN  Perform(r, "r_dir") /\ Complete("r_install", r)
    /\ UNCHANGED <<res, shown, install_dirs, localsBound, site_packages_dir, pending>>
    /\ UNCHANGED utilVars

\* lines 265-278: DirPathPostInstallWindow('R', install_dirs['R']); NEXT takes the
\* directory from the window and writes the R settings
ShowRDir ==
    /\ Running("r_dir")
    /\ \E r \in Outcomes :
        /\ Present("r_dir", r)
        /\ CASE r = NEXT ->
                  \E d \in DirTexts("R") :
                      /\ install_dirs' = [install_dirs EXCEPT !.R = d]
                      /\ pc' = "finish"
                      /\ stepLog' = activateRplugin(d, <<"true">>)
                      /\ settings' = ApplySettings(settings, activateRplugin(d, <<"true">>))
                      /\ progress' = [progress EXCEPT !["r_dir"] = "done"]
                      /\ UNCHANGED <<status, exc>>
             [] r = SKIP -> OnSkip("finish") /\ UNCHANGED <<progress, install_dirs, settings>>
             [] r = CANCEL -> OnCancel("finish") /\ UNCHANGED <<progress, install_dirs, settings>>
             [] OTHER -> OnUnknown("finish") /\ UNCHANGED <<progress, install_dirs, settings>>
    /\ UNCHANGED <<localsBound, site_packages_dir, pending>>
    /\ UNCHANGED utilVars

\* lines 281-283: the finish window, whose outcome is not looked at
ShowFinish ==
    /\ Running("finish")
    /\ \E r \in Outcomes : Present("finish", r)
    /\ pc' = "done"
    /\ status' = "returned"
    /\ stepLog' = <<>>
    /\ UNCHANGED <<progress, settings, install_dirs, localsBound, site_packages_dir, pending, exc>>
    /\ UNCHANGED utilVars

\* the state in which runInstaller is entered; the settings store is taken empty
Init ==
    /\ pc = "welcome"
    /\ res = [s \in StepSet |-> "none"]
    /\ shown = <<>>
    /\ progress = [s \in StepSet |-> "none"]
    /\ stepLog = <<>>
    /\ settings = {}
    /\ install_dirs = UnboundDirs
    /\ localsBound = FALSE
    /\ site_packages_dir = <<>>
    /\ pending = 0
    /\ status = "running"
    /\ exc = "none"
    /\ fs = NoFs
    /\ call = NoCall
    /\ ncalls = 0

Next ==
    \/ ShowWelcome
    \/ ShowUninstall
    \/ ShowOsgeoInstall
    \/ OsgeoExec
    \/ OsgeoExtractOtb
    \/ ShowOsgeoDir
    \/ DeleteOldPlugins
    \/ ExtractPlugins
    \/ ExtractProcessingPackage
    \/ ListPythonPackages
    \/ ExtractPythonPackage
    \/ PipCmd
    \/ PipRun
    \/ ActivatePlugins
    \/ ActivateProviders
    \/ ShowSnapInstall
    \/ SnapExec
    \/ SnapJpyconfig
    \/ SnapSnappy
    \/ SnapConfigure
    \/ SnapCopyModules
    \/ SnapUpdate
    \/ SnapActivate
    \/ ShowRInstall
    \/ RExec
    \/ ShowRDir
    \/ ShowFinish

Spec == Init /\ [][Next]_vars

\* runInstaller is one sequential procedure: as long as a statement is enabled
\* (its dialog is answered, its process ends) the next one is taken
LiveSpec == Spec /\ WF_vars(Next)

(***************************************************************************)
(* UtilSpec: the Utilities methods applied to a small file system.         *)
(***************************************************************************)
ArchivePath == <<"C:", "in", "a.zip">>

SrcTree == <<"C:", "in", "tree">>

DstParent == <<"C:", "out">>

DstPath == <<"C:", "out", "d">>

OsgeoRoot == <<"C:", "OSGeo4W64">>

PackageDir == <<"C:", "extras", "python_packages_pip">>

Files2(p, c, q, d) == Overlay(OneFile(p, c), OneFile(q, d))

ArchiveChoices == {EmptyFiles, OneFile(ArchivePath, "zipA"), OneFile(ArchivePath, "x")}

SrcChoices == {EmptyFiles,
               OneFile(join(SrcTree, "a"), "x"),
               Files2(join(SrcTree, "a"), "x", SrcTree \o <<"sub", "c">>, "x")}

DstChoices == {[files |-> EmptyFiles, dirs |-> {<<"C:">>}],
               [files |-> EmptyFiles, dirs |-> {DstParent}],
               [files |-> EmptyFiles, dirs |-> {DstPath}],
               [files |-> Files2(join(DstPath, "a"), "y", join(DstPath, "b"), "y"), dirs |-> {DstPath}],
               [files |-> Files2(join(DstPath, "b"), "y", join(DstPath, "_test"), "y"), dirs |-> {DstPath}],
               [files |-> OneFile(join(DstPath, "b"), "y"), dirs |-> {join(DstPath, "a")}],
               [files |-> OneFile(DstPath, "y"), dirs |-> {DstParent}]}

CopyFsSet ==
    {MkFs(Overlay(Overlay(A, S), D.files), D.dirs, RO, ND) :
        A \in ArchiveChoices, S \in SrcChoices, D \in DstChoices,
        RO \in {{}, {DstParent}, {DstPath}}, ND \in {{}, {DstPath}}}

ExecFiles == {<<"setup.exe">>, <<"my">>, <<"my setup.exe">>}

ExecFsSet == {MkFs([p \in F |-> "x"], {}, {}, {}) : F \in SUBSET ExecFiles}

ExecCommands ==
    {[list |-> l, tokens |-> t] :
        l \in BOOLEAN,
        t \in {<< <<"setup.exe">> >>, << <<"setup.exe">>, <<"-q">> >>, << <<"my">>, <<"setup.exe">> >>}}

ProvFsSet ==
    {MkFs([p \in (IF req THEN {join(PackageDir, "requirements.txt")} ELSE {})
                 \cup (IF bat THEN {OsgeoRoot \o <<"bin", "o4w_env.bat">>} ELSE {}) |-> "x"],
          {OsgeoRoot \o <<"apps", "grass", g>> : g \in G}
              \cup {OsgeoRoot \o <<"apps", o>> : o \in O} \cup {OsgeoRoot},
          {}, {}) :
        req \in BOOLEAN, bat \in BOOLEAN, G \in SUBSET GrassNames, O \in SUBSET OtbNames}

UtilFsSet == CopyFsSet \cup ExecFsSet \cup ProvFsSet

\* records a call and its result
Called(op, a1, a2, cmd, flag, opt, r) ==
    /\ ncalls < MaxCalls
    /\ ncalls' = ncalls + 1
    /\ call' = [op |-> op, a1 |-> a1, a2 |-> a2, cmd |-> cmd, flag |-> flag, opt |-> opt,
                pre |-> fs, ev |-> r.ev, exc |-> r.exc, ret |-> r.ret]
    /\ fs' = r.fs
    /\ UNCHANGED seqVars

CallUnzipArchive ==
    \E a \in {ArchivePath, join(SrcTree, "a")}, d \in {DstPath, DstParent} :
        Called("unzipArchive", a, d, NoCommand, FALSE, "", unzipArchive(fs, a, d))

CallCopyFiles ==
    \E s \in {SrcTree, ArchivePath}, d \in {DstPath, DstParent}, chk \in BOOLEAN :
        \E order \in Orders(TreeFiles(fs, s)) :
            Called("copyFiles", s, d, NoCommand, chk, "", copyFiles(fs, s, d, chk, order))

CallCheckWritePermissions ==
    \E d \in {DstPath, DstParent, join(DstPath, "b")} :
        Called("checkWritePermissions", d, <<>>, NoCommand, FALSE, "",
               checkWritePermissions(fs, d))

CallDeleteDir ==
    \E d \in {DstPath, SrcTree} :
        Called("deleteDir", d, <<>>, NoCommand, FALSE, "", deleteDir(fs, d))

CallErrorExit ==
    \E msg \in {"msg"} :
        Called("error_exit", <<>>, <<>>, NoCommand, FALSE, msg, error_exit(fs, msg))

CallExecSubprocess ==
    \E c \in ExecCommands, proc \in ProcEnds :
        Called("execSubprocess", <<>>, <<>>, c, FALSE, proc, execSubprocess(fs, c, proc))

CallExecuteCmd ==
    \E notify \in BOOLEAN, outcome \in CmdOutcomes :
        Called("execute_cmd", <<>>, <<>>, NoCommand, notify, outcome,
               execute_cmd(fs, "cmd", TRUE, notify, outcome))

CallCmdInstallPipOffline ==
    Called("cmd_install_pip_offline", OsgeoRoot, PackageDir, NoCommand, FALSE, "",
           cmd_install_pip_offline(fs, OsgeoRoot, PackageDir))

CallActivateProcessingProviders ==
    \E xcopy \in CmdOutcomes :
        Called("activateProcessingProviders", OsgeoRoot, <<>>, NoCommand, FALSE, xcopy,
               activateProcessingProviders(fs, OsgeoRoot, xcopy))

SeqIdle ==
    /\ pc = "idle"
    /\ res = <<>>
    /\ shown = <<>>
    /\ progress = <<>>
    /\ stepLog = <<>>
    /\ settings = {}
    /\ install_dirs = UnboundDirs
    /\ localsBound = FALSE
    /\ site_packages_dir = <<>>
    /\ pending = 0
    /\ status = "idle"
    /\ exc = "none"

UtilInit ==
    /\ SeqIdle
    /\ fs \in UtilFsSet
    /\ call = NoCall
    /\ ncalls = 0

UtilNext ==
    \/ CallUnzipArchive
    \/ CallCopyFiles
    \/ CallCheckWritePermissions
    \/ CallDeleteDir
    \/ CallErrorExit
    \/ CallExecSubprocess
    \/ CallExecuteCmd
    \/ CallCmdInstallPipOffline
    \/ CallActivateProcessingProviders

UtilSpec == UtilInit /\ [][UtilNext]_vars

(***************************************************************************)
(* Properties.                                                             *)
(***************************************************************************)
Cancelled == \E s \in StepSet : res[s] = CANCEL

LastShown == IF shown = <<>> THEN "none" ELSE shown[Len(shown)]

\* the place of a step among the dialogs presented (0: not presented)
ShownAt(s) == IF \E i \in 1..Len(shown) : shown[i] = s
              THEN CHOOSE i \in 1..Len(shown) : shown[i] = s ELSE 0

AllProceedOrSkip == \A s \in StepSet : res[s] \in {"none", NEXT, SKIP}

\* C1: once a step dialog has returned CANCEL the run has returned normally, that
\* dialog is the last one presented, nothing was executed after it, neither its
\* own branch nor that of any later step has begun (after CANCEL at the welcome
\* window no branch at all has begun and no setting is written), and from then on
\* nothing changes: no dialog, no action, no setting.
C1_CancelEndsSequence ==
    /\ [](\A s \in StepSet :
            res[s] = CANCEL =>
                /\ status = "returned"
                /\ LastShown = s
                /\ stepLog = <<>>
                /\ \A t \in StepSet : StepIndex(t) >= StepIndex(s) => progress[t] = "none"
                /\ s = "welcome" => settings = {} /\ \A t \in StepSet : progress[t] = "none")
    /\ [][Cancelled => UNCHANGED seqVars]_vars

\* C1 witness: CANCEL at the OSGeo4W directory step after the OSGeo4W installation
\* branch has run
C1_Witness ==
    /\ res["osgeo_install"] = NEXT
    /\ progress["osgeo_install"] = "done"
    /\ res["osgeo_dir"] = CANCEL

\* C2: a step dialog that returned an unknown outcome is the last dialog presented,
\* and nothing but the error popup has happened since.
C2_UnknownHalts ==
    \A s \in StepSet :
        res[s] = UNKNOWN => LastShown = s /\ stepLog = unknownActionPopup

\* C3: with SKIP at the OSGeo4W directory step and PROCEED at the SNAP installation
\* step, the skipped branch has not run and, once the run is over, the SNAP branch
\* has run to its end.
C3_SkipThenProceedCompletes ==
    (res["osgeo_dir"] = SKIP /\ res["snap_install"] = NEXT /\ ~Cancelled) =>
        /\ progress["osgeo_dir"] = "none"
        /\ status # "running" => progress["snap_install"] = "done"

\* the directory-confirmation step of a component's installation step; the code
\* has none for SNAP
DirStepOf(s) ==
    CASE s = "osgeo_install" -> "osgeo_dir"
      [] s = "snap_install" -> "snap_dir"
      [] s = "r_install" -> "r_dir"

\* C4: the dialog presented after a skipped installation step (OSGeo4W, SNAP, R)
\* is the directory confirmation of that component.
C4_DirStepAfterSkippedInstall ==
    \A s \in {"osgeo_install", "snap_install", "r_install"} :
        (res[s] = SKIP /\ ShownAt(s) < Len(shown)) => shown[ShownAt(s) + 1] = DirStepOf(s)

\* C5: a run answered with PROCEED and SKIP only, SKIP at the OSGeo4W directory step
\* among them, has presented the OSGeo4W and the R directory dialogs when it is over.
C5_SkipNeverPreventsDirDialogs ==
    (AllProceedOrSkip /\ res["osgeo_dir"] = SKIP /\ status # "running") =>
        res["osgeo_dir"] # "none" /\ res["r_dir"] # "none"

MissingInstaller ==
    Ev("popup", "Could not find the installation file for this component! Skipping to next component")

\* C6: execSubprocess with a command, list or string, whose first token is not an
\* existing file shows the missing-file notification, launches nothing and returns.
C6_MissingFirstTokenNoLaunch ==
    (call.op = "execSubprocess" /\ ~isfile(call.pre, Head(call.cmd.tokens))) =>
        /\ HasEvent(call.ev, MissingInstaller)
        /\ ~HasKind(call.ev, "launch")
        /\ call.exc = "none"

\* C7: activateProcessingProviders with no grass* directory under apps/grass
\* returns without raising, the fixed flags written.
C7_NoGrassFolderSkipsSilently ==
    (call.op = "activateProcessingProviders" /\ LastGrassFolder(call.pre, call.a1) = <<>>) =>
        /\ call.exc = "none"
        /\ SubSeq(call.ev, 1, Len(FixedProviderFlags)) = FixedProviderFlags

\* the last thing that happened in the step is a call of error_exit
LastIsErrorExit ==
    /\ Len(stepLog) >= 3
    /\ stepLog[Len(stepLog) - 2][1] = "log.error"
    /\ stepLog[Len(stepLog) - 1][1] = "popup"
    /\ stepLog[Len(stepLog)] = Finished

\* C8: after a call of error_exit control is back in runInstaller: no exception has
\* ended the run.
C8_ErrorExitReturnsControl ==
    LastIsErrorExit => status # "raised"

\* C9: unzipArchive with an archivePath that is no existing file reports the
\* failure and leaves the file system as it was: nothing created, nothing extracted.
C9_MissingArchiveWritesNothing ==
    (call.op = "unzipArchive" /\ ~isfile(call.pre, call.a1)) =>
        /\ fs = call.pre
        /\ HasEvent(call.ev, Ev("popup", "Could not find the archive! No files were extracted."))
        /\ ~HasKind(call.ev, "extract")
        /\ call.exc = "none"

\* C9 witness: the archive is missing and so is the destination directory, whose
\* parent exists and is writable
C9_Witness ==
    /\ call.op = "unzipArchive"
    /\ ~isfile(call.pre, call.a1)
    /\ ~isdir(call.pre, call.a2)
    /\ isdir(call.pre, dirname(call.a2))
    /\ dirname(call.a2) \notin call.pre.ro

\* C10: execute_cmd emits finished however the command ends, and a non-zero exit
\* is logged, shown when notify is set, and not raised.
C10_ExecuteCmdAlwaysFinishes ==
    call.op = "execute_cmd" =>
        /\ HasEvent(call.ev, Finished)
        /\ call.opt = "nonzero" =>
               /\ call.exc = "none"
               /\ HasKind(call.ev, "log.exception")
               /\ call.flag => HasKind(call.ev, "popup")

\* C10 witness: a non-zero exit with notify set
C10_Witness ==
    /\ call.op = "execute_cmd"
    /\ call.opt = "nonzero"
    /\ call.flag
    /\ HasEvent(call.ev, Finished)

\* the events by which a step acts on the machine: a process or command launched,
\* files extracted, copied, deleted or written, a setting written
EffectKinds == {"launch", "cmd", "extract", "copy", "deleteDir", "write", "append",
                "fix_jpyconfig", "set"}

NoEffect(ev) == \A i \in 1..Len(ev) : ev[i][1] \notin EffectKinds

\* C11: while the last dialog presented is one that was answered SKIP (from the
\* moment it returns until the next dialog is presented), nothing has been
\* launched, extracted, copied, deleted or written, no branch has begun, and the
\* settings and install_dirs are what they were before the dialog.
C11_SkipDoesNothing ==
    /\ [](\A s \in StepSet : (LastShown = s /\ res[s] = SKIP) => NoEffect(stepLog))
    /\ [][\A s \in StepSet :
            (LastShown' = s /\ res'[s] = SKIP) =>
                /\ settings' = settings
                /\ install_dirs' = install_dirs
                /\ progress' = progress
                /\ site_packages_dir' = site_packages_dir]_vars

\* C11 witness: SKIP at the OSGeo4W directory step after its installation branch
\* has run, and the next dialog is up
C11_Witness ==
    /\ progress["osgeo_install"] = "done"
    /\ res["osgeo_dir"] = SKIP
    /\ LastShown = "snap_install"
    /\ settings = {}
    /\ install_dirs = DefaultDirs

\* a probe file can be created in directory d of file system f, d created first
\* when it is absent
ProbeCreatable(f, d) ==
    LET mk == IF isdir(f, d) THEN [ok |-> TRUE, fs |-> f] ELSE makedirs(f, d)
    IN  mk.ok /\ open_w(mk.fs, join(d, "_test")).ok

\* C12: checkWritePermissions(dstPath) never raises, returns True exactly when a
\* probe file could be created in dstPath (dstPath then exists), and when it
\* returned True no file _test is left in dstPath.
C12_ProbeLeavesNoFile ==
    call.op = "checkWritePermissions" =>
        /\ call.exc = "none"
        /\ (call.ret = "True") <=> ProbeCreatable(call.pre, call.a1)
        /\ call.ret = "True" => isdir(fs, call.a1) /\ ~isfile(fs, join(call.a1, "_test"))

\* the path of q relative to directory d
Relative(d, q) == SubSeq(q, Len(d) + 1, Len(q))

\* copyFiles was called with a source directory and an existing destination
\* directory, nothing in the file system is write-protected, and no file of the
\* source meets a directory of the destination at its path (nor a directory a file)
MergeCase ==
    /\ call.op = "copyFiles"
    /\ isdir(call.pre, call.a1)
    /\ isdir(call.pre, call.a2)
    /\ call.pre.ro = {} /\ call.pre.nodel = {}
    /\ \A p \in TreeFiles(call.pre, call.a1) : ~isdir(call.pre, call.a2 \o p)
    /\ \A d \in TreeDirs(call.pre, call.a1) : ~isfile(call.pre, call.a2 \o d)

\* C13: copyFiles of a source directory into an existing, writable destination
\* directory returns with every file of the source in the destination, content
\* included, and with every file of the destination that the source does not have
\* still there and unchanged.
C13_CopyMergesIntoDestination ==
    MergeCase =>
        /\ call.exc = "none"
        /\ \A p \in TreeFiles(call.pre, call.a1) :
                /\ isfile(fs, call.a2 \o p)
                /\ fs.files[call.a2 \o p] = call.pre.files[call.a1 \o p]
        /\ \A q \in DOMAIN call.pre.files :
                (IsPrefix(call.a2, q) /\ Relative(call.a2, q) \notin TreeFiles(call.pre, call.a1)) =>
                    isfile(fs, q) /\ fs.files[q] = call.pre.files[q]

\* C14: the dialogs presented so far are in the order of Steps with no dialog
\* twice, a step only ever adds one dialog at the end of that list, and every run
\* comes to an end (runInstaller returns or is left by an exception).
C14_StraightLine ==
    /\ [](\A i, j \in 1..Len(shown) : i < j => StepIndex(shown[i]) < StepIndex(shown[j]))
    /\ [][shown' = shown \/ \E s \in StepSet : shown' = Append(shown, s)]_vars
    /\ <>(status # "running")

\* C14 witness: a run over which all eight dialogs were presented, with SKIP and
\* PROCEED answers among them
C14_Witness ==
    /\ status = "returned"
    /\ shown = Steps
    /\ res["osgeo_install"] = SKIP
    /\ res["r_dir"] = NEXT

\* the notifications by which unzipArchive and copyFiles report that no file was
\* put in place
FailureReports ==
    {Ev("popup", "Could not find the archive! No files were extracted."),
     Ev("popup", "You do not have permissions to write to destination directory!"),
     Ev("popup", "Could not find the destination directory! No files were copied."),
     Ev("popup", "Cannot find the source directory! No files were copied.")}

\* C15: in the OSGeo4W directory step and in the SNAP installation step, a setting
\* is written only when an extraction or copy of the step has put files in place
\* before it and no extraction or copy of the step has reported a failure.
C15_ActivationAfterFilesInPlace ==
    LastShown \in {"osgeo_dir", "snap_install"} =>
        \A i \in 1..Len(stepLog) :
            stepLog[i][1] = "set" =>
                /\ \E j \in 1..(i - 1) : stepLog[j][1] \in {"extract", "copy"}
                /\ \A j \in 1..(i - 1) : stepLog[j] \notin FailureReports

\* C16: once execSubprocess has shown that the installer file of the step is
\* missing, nothing more is extracted, written, copied, launched, run or set in
\* that step.
C16_MissingInstallerSkipsRest ==
    \A i \in 1..Len(stepLog) :
        stepLog[i] = MissingInstaller =>
            \A j \in (i + 1)..Len(stepLog) : stepLog[j][1] \notin EffectKinds

\* copyFiles was called with checkDstParentExists set and a dstPath whose parent is
\* no existing directory
ParentMissing ==
    call.op = "copyFiles" /\ call.flag /\ ~isdir(call.pre, dirname(call.a2))

\* C17: copyFiles stopped by its parent check reports it and returns with the
\* file system as it was (dstPath not created, nothing copied); copyFiles whose
\* dstPath is not writable reports it and returns with no file copied or changed.
C17_CopyFilesPreconditions ==
    call.op = "copyFiles" =>
        /\ ParentMissing =>
              /\ call.exc = "none"
              /\ fs = call.pre
              /\ HasEvent(call.ev, Ev("popup", "Could not find the destination directory! No files were copied."))
              /\ ~HasKind(call.ev, "copy")
        /\ (~ParentMissing /\ ~ProbeCreatable(call.pre, call.a2)) =>
              /\ call.exc = "none"
              /\ fs.files = call.pre.files
              /\ HasEvent(call.ev, Ev("popup", "You do not have permissions to write to destination directory!"))
              /\ ~HasKind(call.ev, "copy")

\* C17 witness: the destination directory is read-only and the source is a
\* directory with files
C17_Witness ==
    /\ call.op = "copyFiles"
    /\ ~ParentMissing
    /\ isdir(call.pre, call.a2)
    /\ call.a2 \in call.pre.ro
    /\ TreeFiles(call.pre, call.a1) # {}
    /\ HasEvent(call.ev, Finished)

\* C18: every process launched in the step has exited by the time execSubprocess
\* returns, so nothing else of the run happens while it is running.
C18_ProcessesRunToCompletion ==
    \A i \in 1..Len(stepLog) :
        stepLog[i][1] = "launch" =>
            /\ i < Len(stepLog)
            /\ stepLog[i + 1] = Ev("exit", stepLog[i][2])

\* the events of the offline pip step: those from the first log line of
\* cmd_install_pip_offline on
PipStepEvents ==
    LET marker == Ev("log.info", "Installing with pip install -r")
        first == CHOOSE i \in 1..Len(stepLog) :
                    /\ stepLog[i] = marker
                    /\ \A j \in 1..(i - 1) : stepLog[j] # marker
    IN  IF HasEvent(stepLog, marker) THEN SubSeq(stepLog, first, Len(stepLog)) ELSE <<>>

\* C19: when the offline pip step (cmd_install_pip_offline, then execute_cmd of
\* the command it built) has returned, it has emitted finished exactly once.
C19_FinishedExactlyOnce ==
    (status = "running" /\ pc = "activate_plugins") => NumFinished(PipStepEvents) = 1

\* the eight old plugins named by the claim
EightPlugins ==
    {"LecoS", "openlayers_plugin", "pointsamplingtool", "processing_gpf",
     "processing_workflow", "processing-r", "temporalprofiletool", "ThRasE"}

\* C20: when plugins.zip is about to be extracted in the OSGeo4W directory step,
\* deleteDir has been called on the directory of each of the eight plugins.
C20_EightOldPluginsDeleted ==
    (status = "running" /\ pc = "plugins_extract") =>
        \A p \in EightPlugins : HasEvent(stepLog, <<"deleteDir", p>>)

====
